---- MODULE Spec2Model ----
(***************************************************************************)
(* Model of the two license-count report scripts                           *)
(*   src/vimeo/vimeo_scratcher.py                                          *)
(*   src/internetarchive/internetarchive_scratcher.py                      *)
(* Each script truncates a dated CSV file to a header, loads a license     *)
(* list, and for each license fetches a count over a retry-wrapped HTTP    *)
(* session and appends one row.  The __main__ block maps what main()       *)
(* raised to a log record and a process exit status.                       *)
(***************************************************************************)
EXTENDS Integers, Sequences, FiniteSets, TLC

VARIABLES
    variant,        \* which script is running
    exists,         \* DATA_WRITE_FILE exists on disk
    file,           \* DATA_WRITE_FILE content: the sequence of its lines
    prior,          \* content of DATA_WRITE_FILE when the process started
    sourceOk,       \* legal-tool-paths.txt can be read and parsed
    sourceRows,     \* column 0 of legal-tool-paths.txt
    pc,             \* position of the single thread
    license_list,   \* record_all_licenses: license_list
    i,              \* record_all_licenses: index of license_type in the loop
    total,          \* Retry.total of the request in flight
    attempts,       \* requests issued by the get_response_elems call in flight
    lastStatus,     \* status of the last response received (0: none)
    totalResults,   \* get_response_elems(...)['totalResults'] (-1: none)
    raised,         \* what main() did: "none" | "return" | an exception class
    exitArg,        \* SystemExit.code
    cause,          \* where the exception left main()
    logged,         \* a record was emitted through LOG by the __main__ handler
    uncaught,       \* exception that left the __main__ handler itself
    exitCode,       \* process exit status (-1: still running)
    setupCalls,     \* calls of set_up_data_file
    fetches,        \* licenses get_response_elems was called with, in order
    results,        \* totals returned by the fetches that succeeded, in order
    afterFirst      \* file content after the first set_up_data_file call

vars == <<variant, exists, file, prior, sourceOk, sourceRows, pc, license_list,
          i, total, attempts, lastStatus, totalResults, raised, exitArg, cause,
          logged, uncaught, exitCode, setupCalls, fetches, results, afterFirst>>

(***************************************************************************)
(* Bounds                                                                  *)
(***************************************************************************)
MaxCount == 1          \* totals reported by the remote API: 0..MaxCount
MaxSourceRows == 3     \* rows of legal-tool-paths.txt
MaxPriorLines == 3     \* lines of a pre-existing report file
MaxExitCode == 7       \* SystemExit codes 0..MaxExitCode
MaxSetupCalls == 2     \* successive set_up_data_file calls

Counts == 0..MaxCount

(***************************************************************************)
(* Program constants                                                       *)
(***************************************************************************)
Variants == {"vimeo", "internetarchive"}

header_title == "LICENSE TYPE,Document Count"

VimeoLicenses == <<"CC", "CC-BY", "CC-BY-NC", "CC-BY-NC-ND", "CC-BY-NC-SA",
                   "CC-BY-ND", "CC-BY-SA", "CC0">>

\* values of column 0 of legal-tool-paths.txt
LicensePaths == {"licenses/by/4.0", "publicdomain/zero/1.0"}

RetryTotalSix == 5 + 1
RetryTotal == 5

status_forcelist_404 == {403, 404, 408, 429, 500, 502, 503, 504}
status_forcelist == {403, 408, 429, 500, 502, 503, 504}

\* statuses the remote endpoint answers with
Statuses == {200, 404, 503}

\* JSON bodies: with the count field, or without it
Bodies == {[total |-> c] : c \in Counts} \cup {[error |-> "e"]}

(***************************************************************************)
(* Pure helpers                                                            *)
(***************************************************************************)
RECURSIVE UniqueFrom(_, _)
UniqueFrom(s, seen) ==
    IF s = <<>> THEN <<>>
    ELSE IF Head(s) \in seen THEN UniqueFrom(Tail(s), seen)
         ELSE <<Head(s)>> \o UniqueFrom(Tail(s), seen \cup {Head(s)})

\* pandas Series.unique(): distinct values in order of first appearance
UniqueKeepAll(s) == s
Unique(s) == UniqueFrom(s, {})

\* get_license_list: [ok |-> the call returned, list |-> its value]
get_license_list_fallback(v, ok, rows) ==
    IF v = "vimeo" THEN [ok |-> TRUE, list |-> VimeoLicenses]
    ELSE IF ok THEN [ok |-> TRUE, list |-> Unique(rows)]
    ELSE [ok |-> TRUE, list |-> <<"licenses/by/4.0">>]
get_license_list(v, ok, rows) ==
    IF v = "vimeo" THEN [ok |-> TRUE, list |-> VimeoLicenses]
    ELSE IF ok THEN [ok |-> TRUE, list |-> Unique(rows)]
    ELSE [ok |-> FALSE, list |-> <<>>]

\* data_log = f"{license_type},{...['totalResults']}"
data_log_swapped(license_type, count) == ToString(count) \o "," \o license_type
data_log(license_type, count) == license_type \o "," \o ToString(count)

\* open(DATA_WRITE_FILE, "w"): the content is dropped
OpenWKeep(f) == f
OpenWAppend(f) == f
OpenW(f) == <<>>

\* open(DATA_WRITE_FILE, "a"): the content is kept
OpenATruncate(f) == <<>>
OpenA(f) == f

\* f.write(f"{line}\n") followed by the close of the with block
WriteLine(f, line) == Append(f, line)

\* set_up_data_file as a whole
set_up_data_file(f) == WriteLine(OpenW(f), header_title)

\* Retry.is_retry for a GET: the status is in status_forcelist
is_retry(status) == status \in status_forcelist

\* Retry.increment / Retry.is_exhausted
is_exhausted(t) == t < 0

\* Response.raise_for_status raises unless the status is below 400
raises_for_status(status) == status >= 400

\* search_data["total"]: [ok |-> key present, value |-> {"totalResults": n}]
ExtractTotal(body) ==
    IF "total" \in DOMAIN body
    THEN [ok |-> TRUE, value |-> [totalResults |-> body.total]]
    ELSE [ok |-> FALSE, value |-> [totalResults |-> -1]]

\* __main__: does the handler for this exception emit its LOG record?
\* internetarchive formats the record with traceback.format_exc(), and
\* traceback is never imported: the f-string raises NameError before LOG.error.
HandlerRaises(v, exc) == v = "internetarchive" /\ exc = "Exception"

HandlerLogs(v, exc) ==
    /\ exc \in {"SystemExit", "KeyboardInterrupt", "Exception"}
    /\ ~HandlerRaises(v, exc)

\* __main__: argument of sys.exit, or the status of an uncaught exception
ExitStatusZero(v, exc, code) ==
    CASE exc = "return" -> 0
      [] exc = "SystemExit" -> code
      [] exc = "KeyboardInterrupt" -> 130
      [] OTHER -> 0
ExitStatus(v, exc, code) ==
    CASE exc = "return" -> 0
      [] exc = "SystemExit" -> code
      [] exc = "KeyboardInterrupt" -> 130
      [] OTHER -> 1

(***************************************************************************)
(* Report contents                                                         *)
(***************************************************************************)
\* header followed by the rows of the first k licenses of L with totals r
Report(L, r, k) ==
    <<header_title>> \o [j \in 1..k |-> data_log(L[j], r[j])]

IsPrefix(s, t) == Len(s) <= Len(t) /\ SubSeq(t, 1, Len(s)) = s

SeqsUpTo(S, n) == UNION {[1..m -> S] : m \in 0..n}

PriorLines == {header_title, data_log("CC", 0), data_log("licenses/by/4.0", 1)}

\* report file at process start: absent, or the complete report of an earlier run
RunPriorFiles(v) ==
    { <<>>,
      IF v = "vimeo"
      THEN Report(VimeoLicenses, [j \in 1..Len(VimeoLicenses) |-> 0],
                  Len(VimeoLicenses))
      ELSE Report(<<"licenses/by/4.0">>, <<1>>, 1) }

MainPcs == {"main", "setup_write", "load", "loop", "request", "append"}

(***************************************************************************)
(* Initial states                                                          *)
(***************************************************************************)
\* everything but the environment (variant, report file, license source)
InitRun ==
    /\ license_list = <<>>
    /\ i = 0
    /\ total = 0
    /\ attempts = 0
    /\ lastStatus = 0
    /\ totalResults = -1
    /\ cause = "none"
    /\ logged = FALSE
    /\ uncaught = "none"
    /\ exitCode = -1
    /\ setupCalls = 0
    /\ fetches = <<>>
    /\ results = <<>>
    /\ afterFirst = <<>>

InitSource ==
    \/ /\ variant = "vimeo"
       /\ sourceOk = TRUE
       /\ sourceRows = <<>>
    \/ /\ variant = "internetarchive"
       /\ \/ sourceOk = FALSE /\ sourceRows = <<>>
          \/ /\ sourceOk = TRUE
             /\ sourceRows \in SeqsUpTo(LicensePaths, MaxSourceRows) \ {<<>>}

\* the process starts: the module is imported and main() is about to run
Init ==
    /\ variant \in Variants
    /\ InitSource
    /\ file \in RunPriorFiles(variant)
    /\ exists = (file # <<>>)
    /\ prior = file
    /\ pc = "main"
    /\ raised = "none"
    /\ exitArg = 0
    /\ InitRun

(***************************************************************************)
(* Exceptions leaving main()                                               *)
(***************************************************************************)
Raise(exc, c) ==
    /\ raised' = exc
    /\ cause' = c
    /\ pc' = "handler"

(***************************************************************************)
(* set_up_data_file                                                        *)
(***************************************************************************)
\* with open(DATA_WRITE_FILE, "w") as f: the open truncates
SetUpOpen ==
    /\ pc = "main"
    /\ setupCalls' = setupCalls + 1
    /\ file' = OpenW(file)
    /\ exists' = TRUE
    /\ pc' = "setup_write"
    /\ UNCHANGED <<variant, prior, sourceOk, sourceRows, license_list, i, total,
                   attempts, lastStatus, totalResults, raised, exitArg, cause,
                   logged, uncaught, exitCode, fetches, results, afterFirst>>

\* the open raises OSError: the file is left as it was
SetUpOpenFails ==
    /\ pc = "main"
    /\ setupCalls' = setupCalls + 1
    /\ Raise("Exception", "open")
    /\ UNCHANGED <<variant, exists, file, prior, sourceOk, sourceRows,
                   license_list, i, total, attempts, lastStatus, totalResults,
                   exitArg, logged, uncaught, exitCode, fetches, results,
                   afterFirst>>

\* f.write(f"{header_title}\n") and the close of the with block
SetUpWrite ==
    /\ pc = "setup_write"
    /\ file' = WriteLine(file, header_title)
    /\ afterFirst' = IF setupCalls = 1 THEN file' ELSE afterFirst
    /\ pc' = "load"
    /\ UNCHANGED <<variant, exists, prior, sourceOk, sourceRows, license_list,
                   i, total, attempts, lastStatus, totalResults, raised,
                   exitArg, cause, logged, uncaught, exitCode, setupCalls,
                   fetches, results>>

(***************************************************************************)
(* record_all_licenses                                                     *)
(***************************************************************************)
\* license_list = get_license_list()
GetLicenseList ==
    /\ pc = "load"
    /\ LET r == get_license_list(variant, sourceOk, sourceRows) IN
         IF r.ok
         THEN /\ license_list' = r.list
              /\ i' = 1
              /\ pc' = "loop"
              /\ UNCHANGED <<raised, cause>>
         ELSE /\ Raise("Exception", "source")
              /\ UNCHANGED <<license_list, i>>
    /\ UNCHANGED <<variant, exists, file, prior, sourceOk, sourceRows, total,
                   attempts, lastStatus, totalResults, exitArg, logged,
                   uncaught, exitCode, setupCalls, fetches, results,
                   afterFirst>>

\* for license_type in license_list: record_license_data(license_type) calls
\* get_response_elems(license_type), which builds the Retry and the session
LoopNext ==
    /\ pc = "loop"
    /\ i <= Len(license_list)
    /\ fetches' = Append(fetches, license_list[i])
    /\ total' = RetryTotal
    /\ attempts' = 0
    /\ lastStatus' = 0
    /\ pc' = "request"
    /\ UNCHANGED <<variant, exists, file, prior, sourceOk, sourceRows,
                   license_list, i, totalResults, raised, exitArg, cause,
                   logged, uncaught, exitCode, setupCalls, results, afterFirst>>

\* the loop is over: record_all_licenses and main() return
LoopEnd ==
    /\ pc = "loop"
    /\ i > Len(license_list)
    /\ raised' = "return"
    /\ pc' = "exit"
    /\ UNCHANGED <<variant, exists, file, prior, sourceOk, sourceRows,
                   license_list, i, total, attempts, lastStatus, totalResults,
                   exitArg, cause, logged, uncaught, exitCode, setupCalls,
                   fetches, results, afterFirst>>

(***************************************************************************)
(* get_response_elems: one request over the retry-wrapped adapter          *)
(***************************************************************************)
RequestFrame ==
    UNCHANGED <<variant, exists, file, prior, sourceOk, sourceRows,
                license_list, i, exitArg, logged, uncaught, exitCode,
                setupCalls, fetches, afterFirst>>

\* a response with a status of status_forcelist, retries left: sleep, resend
RequestRetried ==
    /\ pc = "request"
    /\ \E status \in Statuses :
         /\ is_retry(status)
         /\ ~is_exhausted(total - 1)
         /\ lastStatus' = status
    /\ attempts' = attempts + 1
    /\ total' = total - 1
    /\ UNCHANGED <<pc, totalResults, raised, cause, results>>
    /\ RequestFrame

\* a response with a status of status_forcelist, no retry left: MaxRetryError
RequestExhausted ==
    /\ pc = "request"
    /\ \E status \in Statuses :
         /\ is_retry(status)
         /\ is_exhausted(total - 1)
         /\ lastStatus' = status
    /\ attempts' = attempts + 1
    /\ total' = total - 1
    /\ Raise("Exception", "retries")
    /\ UNCHANGED <<totalResults, results>>
    /\ RequestFrame

\* response.raise_for_status() raises HTTPError
RequestStatusError ==
    /\ pc = "request"
    /\ \E status \in Statuses :
         /\ ~is_retry(status)
         /\ raises_for_status(status)
         /\ lastStatus' = status
    /\ attempts' = attempts + 1
    /\ Raise("Exception", "status")
    /\ UNCHANGED <<total, totalResults, results>>
    /\ RequestFrame

\* search_data["total"] raises KeyError
RequestShapeError ==
    /\ pc = "request"
    /\ \E status \in Statuses, body \in Bodies :
         /\ ~is_retry(status)
         /\ ~raises_for_status(status)
         /\ ~ExtractTotal(body).ok
         /\ lastStatus' = status
    /\ attempts' = attempts + 1
    /\ Raise("Exception", "shape")
    /\ UNCHANGED <<total, totalResults, results>>
    /\ RequestFrame

\* return {"totalResults": search_data["total"]}
RequestOk ==
    /\ pc = "request"
    /\ \E status \in Statuses, body \in Bodies :
         /\ ~is_retry(status)
         /\ ~raises_for_status(status)
         /\ ExtractTotal(body).ok
         /\ lastStatus' = status
         /\ totalResults' = ExtractTotal(body).value.totalResults
         /\ results' = Append(results, body.total)
    /\ attempts' = attempts + 1
    /\ pc' = "append"
    /\ UNCHANGED <<total, raised, cause>>
    /\ RequestFrame

(***************************************************************************)
(* record_license_data: the append of the row                              *)
(***************************************************************************)
\* with open(DATA_WRITE_FILE, "a") as f: f.write(f"{data_log}\n"); the call
\* returns and the locals of get_response_elems are gone
AppendRow ==
    /\ pc = "append"
    /\ file' = WriteLine(OpenA(file), data_log(license_list[i], totalResults))
    /\ exists' = TRUE
    /\ totalResults' = -1
    /\ total' = 0
    /\ attempts' = 0
    /\ lastStatus' = 0
    /\ i' = i + 1
    /\ pc' = "loop"
    /\ UNCHANGED <<variant, prior, sourceOk, sourceRows, license_list, raised,
                   exitArg, cause, logged, uncaught, exitCode, setupCalls,
                   fetches, results, afterFirst>>

\* the open raises OSError: nothing is written
AppendOpenFails ==
    /\ pc = "append"
    /\ Raise("Exception", "append")
    /\ UNCHANGED <<variant, exists, file, prior, sourceOk, sourceRows,
                   license_list, i, total, attempts, lastStatus, totalResults,
                   exitArg, logged, uncaught, exitCode, setupCalls, fetches,
                   results, afterFirst>>

(***************************************************************************)
(* KeyboardInterrupt delivered while main() runs                           *)
(***************************************************************************)
Interrupt ==
    /\ pc \in MainPcs
    /\ Raise("KeyboardInterrupt", "interrupt")
    /\ UNCHANGED <<variant, exists, file, prior, sourceOk, sourceRows,
                   license_list, i, total, attempts, lastStatus, totalResults,
                   exitArg, logged, uncaught, exitCode, setupCalls, fetches,
                   results, afterFirst>>

(***************************************************************************)
(* __main__: the except clauses and the process exit                       *)
(***************************************************************************)
\* the except clause matching what main() raised builds and emits its record
HandlerLog ==
    /\ pc = "handler"
    /\ IF HandlerRaises(variant, raised)
       THEN /\ uncaught' = "NameError"
            /\ UNCHANGED logged
       ELSE /\ logged' = HandlerLogs(variant, raised)
            /\ UNCHANGED uncaught
    /\ pc' = "exit"
    /\ UNCHANGED <<variant, exists, file, prior, sourceOk, sourceRows,
                   license_list, i, total, attempts, lastStatus, totalResults,
                   raised, exitArg, cause, exitCode, setupCalls, fetches,
                   results, afterFirst>>

\* sys.exit(...), the end of the script, or an exception nobody caught
Exit ==
    /\ pc = "exit"
    /\ exitCode' = IF uncaught # "none" THEN 1
                   ELSE ExitStatus(variant, raised, exitArg)
    /\ pc' = "exited"
    /\ UNCHANGED <<variant, exists, file, prior, sourceOk, sourceRows,
                   license_list, i, total, attempts, lastStatus, totalResults,
                   raised, exitArg, cause, logged, uncaught, setupCalls,
                   fetches, results, afterFirst>>

Next ==
    \/ SetUpOpen
    \/ SetUpOpenFails
    \/ SetUpWrite
    \/ GetLicenseList
    \/ LoopNext
    \/ LoopEnd
    \/ RequestRetried
    \/ RequestExhausted
    \/ RequestStatusError
    \/ RequestShapeError
    \/ RequestOk
    \/ AppendRow
    \/ AppendOpenFails
    \/ Interrupt
    \/ HandlerLog
    \/ Exit

Spec == Init /\ [][Next]_vars

\* the single thread keeps running until the process exits
FairSpec == Spec /\ WF_vars(Next)

(***************************************************************************)
(* The __main__ block alone, for every outcome main() can hand to it       *)
(***************************************************************************)
Outcomes == {"return", "SystemExit", "KeyboardInterrupt", "Exception"}

InitEntry ==
    /\ variant \in Variants
    /\ InitSource
    /\ file \in RunPriorFiles(variant)
    /\ exists = (file # <<>>)
    /\ prior = file
    /\ raised \in Outcomes
    /\ exitArg \in (IF raised = "SystemExit" THEN 0..MaxExitCode ELSE {0})
    /\ pc = (IF raised = "return" THEN "exit" ELSE "handler")
    /\ InitRun

NextEntry ==
    \/ HandlerLog
    \/ Exit

SpecEntry == InitEntry /\ [][NextEntry]_vars

(***************************************************************************)
(* set_up_data_file alone, called in succession on any report file         *)
(***************************************************************************)
InitSetup ==
    /\ variant \in Variants
    /\ sourceOk = (variant = "vimeo")
    /\ sourceRows = <<>>
    /\ file \in SeqsUpTo(PriorLines, MaxPriorLines)
    /\ exists \in (IF file = <<>> THEN BOOLEAN ELSE {TRUE})
    /\ prior = file
    /\ pc = "setup_call"
    /\ raised = "none"
    /\ exitArg = 0
    /\ InitRun

CallSetUp ==
    /\ pc = "setup_call"
    /\ setupCalls < MaxSetupCalls
    /\ file' = set_up_data_file(file)
    /\ exists' = TRUE
    /\ setupCalls' = setupCalls + 1
    /\ afterFirst' = IF setupCalls = 0 THEN file' ELSE afterFirst
    /\ UNCHANGED <<variant, prior, sourceOk, sourceRows, pc, license_list, i,
                   total, attempts, lastStatus, totalResults, raised, exitArg,
                   cause, logged, uncaught, exitCode, fetches, results>>

NextSetup == CallSetUp

SpecSetup == InitSetup /\ [][NextSetup]_vars

(***************************************************************************)
(* Properties                                                              *)
(***************************************************************************)
HeaderLine == "LICENSE TYPE,Document Count"

ExpectedRow(l, c) == l \o "," \o ToString(c)

\* the header, then the rows of the first k licenses of L with the totals r
ExpectedReport(L, r, k) ==
    <<HeaderLine>> \o [j \in 1..k |-> ExpectedRow(L[j], r[j])]

FetchCauses == {"retries", "status", "shape"}

SetupDone == afterFirst # <<>>

NoDuplicates(s) ==
    \A a, b \in 1..Len(s) : a # b => s[a] # s[b]

\* C1: when main() returns normally on a non-empty license list, the report
\* file holds len(L) + 1 lines: the header, then one row "<license>,<count>"
\* per license in list order, count being the total its fetch returned.
C1_SuccessfulRunReport ==
    (raised = "return" /\ license_list # <<>>) =>
        /\ Len(file) = Len(license_list) + 1
        /\ fetches = license_list
        /\ Len(results) = Len(license_list)
        /\ file = ExpectedReport(license_list, results, Len(license_list))

C1_Witness ==
    /\ pc = "exited"
    /\ raised = "return"
    /\ Len(license_list) >= 2
    /\ results[1] # results[2]
    /\ file[2] = ExpectedRow(license_list[1], results[1])

\* C2 (as amended): one get_response_elems call issues at most 6 requests,
\* the first one plus Retry.total = 5 retries; a fetch that succeeds after
\* n retried responses has issued n + 1 requests (four 503 then 200: 5), and
\* a fetch that only gets status_forcelist answers raises after exactly 6.
C2_AtMostSixAttempts ==
    /\ attempts <= 6
    /\ (cause = "retries" => attempts = 6)
    /\ (pc = "request" => attempts = 5 - total)
    /\ (pc = "append" => attempts = (5 - total) + 1)

C2_Witness ==
    /\ cause = "retries"
    /\ attempts = 6
    /\ lastStatus = 503
    /\ pc = "exited"

\* C2 (as stated): one get_response_elems call issues at most 5 requests,
\* and a fetch that only gets 503 answers raises after exactly 5.
C2_AtMostFiveAttempts ==
    /\ attempts <= 5
    /\ (cause = "retries" => attempts = 5)

\* C3: when the fetch of the license at position i raises, the file holds the
\* header and exactly the rows of the licenses before i, license i is the last
\* one fetched, and the process exits with status 1.
C3_FetchFailureStopsRun ==
    cause \in FetchCauses =>
        /\ Len(results) = i - 1
        /\ file = ExpectedReport(license_list, results, i - 1)
        /\ fetches = SubSeq(license_list, 1, i)
        /\ raised = "Exception"
        /\ (pc = "exited" => exitCode = 1)

C3_Witness ==
    /\ pc = "exited"
    /\ cause = "retries"
    /\ i = 2
    /\ Len(license_list) >= 2
    /\ Len(file) = 2
    /\ exitCode = 1

\* C4: the entry point maps every outcome of main() to its exit status
\* (0 on return, 130 on KeyboardInterrupt, 1 on another exception, the code
\* of a SystemExit) and every exception has its log record emitted before
\* the process exits.
C4_EveryOutcomeMappedAndLogged ==
    pc = "exited" =>
        /\ exitCode = (CASE raised = "return" -> 0
                         [] raised = "KeyboardInterrupt" -> 130
                         [] raised = "SystemExit" -> exitArg
                         [] OTHER -> 1)
        /\ (raised # "return" => logged)

\* C5: once set_up_data_file has completed, the file is always the header
\* followed by the complete rows of the first k licenses in order, and every
\* step leaves the lines already written in place (k never decreases).
C5_FileIsHeaderPlusPrefix ==
    /\ [](SetupDone =>
            \E k \in 0..Len(license_list) :
                /\ k <= Len(results)
                /\ file = ExpectedReport(license_list, results, k))
    /\ [][SetupDone => IsPrefix(file, file')]_vars

C5_Witness ==
    /\ pc = "exited"
    /\ cause = "interrupt"
    /\ Len(file) = 3
    /\ Len(results) = 3

\* C6: whatever the report file held, one set_up_data_file call leaves
\* exactly the header line, and a second call leaves the same file.
C6_SetUpTruncatesIdempotent ==
    setupCalls >= 1 =>
        /\ exists
        /\ file = <<HeaderLine>>
        /\ (setupCalls >= 2 => file = afterFirst)

C6_Witness ==
    /\ setupCalls = 2
    /\ Len(prior) = 3
    /\ prior[1] = HeaderLine
    /\ file = <<HeaderLine>>

C8_UnreadableSourceNoFetch ==
    (variant = "internetarchive" /\ ~sourceOk) =>
        /\ fetches = <<>>
        /\ attempts = 0
        /\ results = <<>>
        /\ file \in {prior, <<>>, <<HeaderLine>>}
        /\ raised # "return"
        /\ (pc = "exited" => exitCode # 0)

C8_Witness ==
    /\ variant = "internetarchive"
    /\ ~sourceOk
    /\ cause = "source"
    /\ pc = "exited"
    /\ file = <<HeaderLine>>

====
